---- MODULE Spec2Model ----
(***************************************************************************)
(* Model of src/client.go: the Client session (identity, consent value,    *)
(* visitor token), the transport layer (httpDo, httpPost, getVisitorId,    *)
(* refreshVisitorId), the resolution orchestrator (videoFromID) and the    *)
(* downloader (GetStreamContext, downloadOnce, downloadChunked,            *)
(* downloadChunk).                                                         *)
(*                                                                         *)
(* Spec     : one GetStreamContext call on a Client, with its goroutines.  *)
(* SpecRes  : a sequence of videoFromID calls on a Client, with time.      *)
(***************************************************************************)
EXTENDS Integers, Sequences, FiniteSets, TLC

(* ------------------------------ bounds -------------------------------- *)
\* largest content length of a format
MaxLen == 5
\* last instant of the clock, in hours
MaxTime == 12
\* number of videoFromID calls made on one Client
MaxCalls == 2

(* ------------------------- program constants -------------------------- *)
Size1Kb == 1024
Size1Mb == Size1Kb * 1024
Size10Mb == Size1Mb * 10
\* getMaxRoutines: routines := 10
DefaultRoutines == 10
\* http.StatusOK
StatusOK == 200
\* rand.Intn(899) + 100
ConsentSpan == 899
ConsentBase == 100
\* VisitorIdMaxAge = 10 * time.Hour, in hours
VisitorIdMaxAge == 10

(* ------------------------------ errors -------------------------------- *)
\* An error is its chain of wrapped errors, outermost first; nil is <<>>.
Nil == <<>>
Sentinel(name) == << [msg |-> name, code |-> 0] >>
ErrNoFormat == Sentinel("no video format provided")
ErrCipherNotFound == Sentinel("cipher not found")
ErrNotPlayableInEmbed == Sentinel("embedding of this video has been disabled")
ErrLoginRequired == Sentinel("login required to confirm your age")
ErrVideoPrivate == Sentinel("user restricted access to this video")
ErrPlayabilityStatus == Sentinel("cannot playback and download")
ErrUnexpectedStatusCode(code) == << [msg |-> "unexpected status code", code |-> code] >>
ErrNet == Sentinel("transport error")
ErrContextCanceled == Sentinel("context canceled")
ErrRead == Sentinel("unexpected EOF")
ErrInvalidSize == Sentinel("chunk has invalid size")
ErrJSON == Sentinel("invalid character")
ErrEscape == Sentinel("invalid URL escape")
ErrDescramble == Sentinel("descrambler failed")

\* fmt.Errorf(ctx + ": %w", err)
Wrap(ctx, err) == << [msg |-> ctx, code |-> 0] >> \o err
\* errors.Unwrap
Unwrap(err) == IF err = Nil THEN Nil ELSE Tail(err)
\* errors.Is(err, target)
RECURSIVE ErrorsIs(_, _)
ErrorsIs(err, target) ==
    IF err = Nil THEN FALSE
    ELSE IF err = target THEN TRUE
    ELSE ErrorsIs(Tail(err), target)

(* ------------------------------ chunks -------------------------------- *)
Min(a, b) == IF a < b THEN a ELSE b

\* getChunks(totalSize, chunkSize): the chunk ranges, in order
RECURSIVE ChunksFrom(_, _, _, _)
ChunksFrom(start, num, totalSize, chunkSize) ==
    IF start >= totalSize THEN <<>>
    ELSE << [num |-> num, start |-> start,
             end |-> Min(chunkSize + start - 1, totalSize - 1)] >>
         \o ChunksFrom(start + chunkSize, num + 1, totalSize, chunkSize)
getChunks(totalSize, chunkSize) == ChunksFrom(0, 1, totalSize, chunkSize)
\* capacity of a chunk's delivery channel
ChunkChanCap == 1

\* Client.getChunkSize
getChunkSize(ChunkSize) == IF ChunkSize > 0 THEN ChunkSize ELSE Size10Mb

\* Client.getMaxRoutines
getMaxRoutinesNoLimit(MaxRoutines, limit) ==
    IF MaxRoutines > 0 THEN MaxRoutines ELSE DefaultRoutines
getMaxRoutines(MaxRoutines, limit) ==
    LET routines == IF MaxRoutines > 0 THEN MaxRoutines ELSE DefaultRoutines
    IN  IF limit > 0 /\ routines > limit THEN limit ELSE routines

\* audioData zero value, what a receive from a closed empty channel yields
ZeroUnit == [chunkNum |-> 0, totalChunks |-> 0, n |-> 0]


(* ------------------------------- state -------------------------------- *)
VARIABLES
    \* Client (session)
    DefaultClient,   \* the package-level default identity
    client,          \* c.client
    consentID,       \* c.consentID, 0 when empty
    visitorId,       \* c.visitorId: [value, updated]
    MaxRoutines,     \* c.MaxRoutines
    ChunkSize,       \* c.ChunkSize
    playerCached,    \* c.playerCache holds the player code
    \* goroutines that call httpDo: 0 is the caller, 1..MaxWorkers the chunk workers
    pc,
    kind,            \* what the goroutine's current request is for
    hres,            \* what httpDo returned to the goroutine last
    body,            \* the goroutine's response body is open
    sentConsents,    \* consent values carried by the requests sent so far
    genCount,        \* how many times a consent value was generated
    \* GetStreamContext
    contentLength, chunks, chanData, chanClosed, currentChunk, cur, werr, claims,
    late, fetchFailed, outOfOrder, cancelled, parentCancelled, started,
    spc, seqI, seqData, opc, received, retLen, retErr,
    \* transport log
    reqCount,        \* requests sent by the current resolution call, by kind
    postHeader,      \* the x-goog-visitor-id header of the POST being built
    postTokens,      \* x-goog-visitor-id values of the POSTs sent so far
    \* videoFromID
    now,             \* the clock, in hours
    calls,           \* videoFromID calls started so far
    attempt,         \* 1: first fetch, 2: embedded retry, 3: watch page
    ferr,            \* the error of the current fetch
    firstErr,        \* what the first parse reported
    errEmbed,        \* what the retry reported
    resErr,          \* the error videoFromID returned
    switches,        \* executions of c.client = &EmbeddedClient in this call
    firstIdentity,   \* the identity of the call's first fetch
    needRefresh,     \* getVisitorId of the current POST found the token absent or stale
    refreshed,       \* the refresh of the current POST stored a token
    lastRefresh      \* the last non-empty token a refresh stored, and when

clientVars == << DefaultClient, client, consentID, visitorId, MaxRoutines,
                 ChunkSize, playerCached >>
logVars == << reqCount, postHeader, postTokens >>
threadVars == << pc, kind, hres, body, sentConsents, genCount, logVars, logVars >>
callVars == << contentLength, chunks, started, retLen, retErr >>
chanVars == << chanData, chanClosed >>
workVars == << currentChunk, cur, werr, claims, late, fetchFailed, outOfOrder >>
seqVars == << spc, seqI, seqData >>
dlVars == << callVars, chanVars, workVars, seqVars, cancelled, parentCancelled,
             opc, received >>
resVars == << now, calls, attempt, ferr, firstErr, errEmbed, resErr, switches,
             firstIdentity, needRefresh, refreshed, lastRefresh >>
vars == << clientVars, threadVars, dlVars, resVars >>

RoutineCaps == {0, 1, 2}
\* the chunk workers of the model: as many as the largest configured cap
MaxWorkers == CHOOSE m \in RoutineCaps : \A r \in RoutineCaps : r <= m
Main == 0
Workers == 1..MaxWorkers
Threads == 0..MaxWorkers
\* the least and the greatest value httpDo may generate
ConsentValues == {ConsentBase, ConsentBase + ConsentSpan - 1}
\* clientInfo.androidVersion
androidVersion(ci) == IF ci = "ANDROID" THEN 30 ELSE 0
\* what the transport may answer: 0 is an error of client.Do, else a status
Outcomes == {0, StatusOK, 403}
NoResult == [status |-> 0, err |-> Nil, res |-> FALSE]
ZeroTime == 0 - (VisitorIdMaxAge + 1)

\* the content lengths of the formats: unknown, and the two largest
Lengths == {0, MaxLen - 1, MaxLen}
Formats == [kind : {"nil", "url", "cipher", "none"}, ContentLength : Lengths]
ChunkSizes == {0, 2}

\* Client.assureClient: the identity after the call, d being DefaultClient
assureClientReset(c, d) == d
assureClient(c, d) == IF c = "unset" THEN d ELSE c

(* ------------------------------- httpDo ------------------------------- *)
\* the context of a goroutine's request is done
CtxDoneIgnored(t) == FALSE
CtxDone(t) ==
    CASE kind[t] = "chunk" -> cancelled \/ parentCancelled
      [] kind[t] = "once" -> parentCancelled
      [] OTHER -> FALSE

\* httpDo lines 547-563: the (res, err) pair for a transport answer
httpDoResult(o) ==
    IF o = 0 THEN [status |-> 0, err |-> ErrNet, res |-> FALSE]
    ELSE IF o # StatusOK
         THEN [status |-> o, err |-> ErrUnexpectedStatusCode(o), res |-> FALSE]
         ELSE [status |-> o, err |-> Nil, res |-> TRUE]
\* httpDo line 553: whether the body of a response is left open
httpDoBodyLeak(o) == o # 0
httpDoBodyOpen(o) == o = StatusOK

\* httpDo line 536: if len(c.consentID) == 0
HttpDoCheck(t) ==
    /\ pc[t] = "httpDo"
    /\ pc' = [pc EXCEPT ![t] = IF consentID = 0 THEN "httpDo_gen" ELSE "httpDo_do"]
    /\ UNCHANGED << resVars, clientVars, kind, hres, body, sentConsents,
                    genCount, logVars, dlVars >>

\* httpDo line 537: c.consentID = strconv.Itoa(rand.Intn(899) + 100)
HttpDoGen(t) ==
    /\ pc[t] = "httpDo_gen"
    /\ \E v \in ConsentValues : consentID' = v
    /\ genCount' = genCount + 1
    /\ pc' = [pc EXCEPT ![t] = "httpDo_do"]
    /\ UNCHANGED << resVars, DefaultClient, client, visitorId, MaxRoutines,
                    ChunkSize,
                    playerCached, kind, hres, body, sentConsents, logVars, dlVars >>

\* the kinds of request a resolution call counts
Counted == {"player", "landing", "watch", "once"}

\* httpDo lines 540-563: the cookie is read, client.Do runs, the status is classified
HttpDoDo(t) ==
    /\ pc[t] = "httpDo_do"
    /\ IF CtxDone(t)
       THEN /\ hres' = [hres EXCEPT ![t] =
                          [status |-> 0, err |-> ErrContextCanceled, res |-> FALSE]]
            /\ UNCHANGED << body, sentConsents, reqCount, postTokens >>
       ELSE \E o \in Outcomes :
            /\ sentConsents' = sentConsents \cup {consentID}
            /\ reqCount' = IF kind[t] \in Counted
                           THEN [reqCount EXCEPT ![kind[t]] = @ + 1] ELSE reqCount
            /\ postTokens' = IF kind[t] = "player"
                             THEN postTokens \cup {postHeader} ELSE postTokens
            /\ hres' = [hres EXCEPT ![t] = httpDoResult(o)]
            /\ body' = [body EXCEPT ![t] = httpDoBodyOpen(o)]
    /\ pc' = [pc EXCEPT ![t] = "httpDo_ret"]
    /\ UNCHANGED << resVars, clientVars, kind, genCount, postHeader, dlVars >>

(* -------------------------- GetStreamContext -------------------------- *)
\* the configurations this model runs: the workers started fit the bound
FitsBounds(f) ==
    getMaxRoutines(MaxRoutines,
                   Len(getChunks(f.ContentLength, getChunkSize(ChunkSize)))) <= MaxWorkers

\* GetStreamContext line 367 with GetStreamURLContext lines 495-523
GetStreamContext ==
    /\ pc[Main] = "start"
    /\ \E f \in Formats :
       /\ FitsBounds(f)
       /\ contentLength' = f.ContentLength
       /\ IF f.kind = "nil"
          THEN /\ retErr' = ErrNoFormat
               /\ pc' = [pc EXCEPT ![Main] = "returned"]
               /\ UNCHANGED client
          ELSE /\ client' = assureClient(client, DefaultClient)
               /\ IF f.kind = "url" /\ androidVersion(client') > 0
                  THEN /\ pc' = [pc EXCEPT ![Main] = "NewRequest"]
                       /\ UNCHANGED retErr
                  ELSE IF f.kind = "none"
                  THEN /\ retErr' = ErrCipherNotFound
                       /\ pc' = [pc EXCEPT ![Main] = "returned"]
                  ELSE /\ pc' = [pc EXCEPT ![Main] = "descramble"]
                       /\ UNCHANGED retErr
    /\ UNCHANGED << resVars, DefaultClient, consentID, visitorId, MaxRoutines,
                    ChunkSize,
                    playerCached, kind, hres, body, sentConsents, genCount, logVars,
                    chunks, started, retLen, chanVars, workVars, seqVars,
                    cancelled, parentCancelled, opc, received >>

\* unThrottle / decipherURL: the player code is fetched unless it is cached
Descramble ==
    /\ pc[Main] = "descramble"
    /\ IF playerCached
       THEN /\ \E ok \in BOOLEAN :
               IF ok THEN /\ pc' = [pc EXCEPT ![Main] = "NewRequest"]
                          /\ UNCHANGED retErr
                     ELSE /\ pc' = [pc EXCEPT ![Main] = "returned"]
                          /\ retErr' = ErrDescramble
            /\ UNCHANGED kind
       ELSE /\ kind' = [kind EXCEPT ![Main] = "playerjs"]
            /\ pc' = [pc EXCEPT ![Main] = "httpDo"]
            /\ UNCHANGED retErr
    /\ UNCHANGED << resVars, clientVars, hres, body, sentConsents, genCount,
                    logVars, contentLength,
                    chunks, started, retLen, chanVars, workVars, seqVars,
                    cancelled, parentCancelled, opc, received >>

\* the player code request returned: the body is read and closed
DescrambleRet ==
    /\ pc[Main] = "httpDo_ret" /\ kind[Main] = "playerjs"
    /\ IF hres[Main].err # Nil
       THEN /\ retErr' = hres[Main].err
            /\ pc' = [pc EXCEPT ![Main] = "returned"]
            /\ UNCHANGED << playerCached, body >>
       ELSE /\ body' = [body EXCEPT ![Main] = FALSE]
            /\ \E ok \in BOOLEAN :
               IF ok THEN /\ pc' = [pc EXCEPT ![Main] = "NewRequest"]
                          /\ playerCached' = TRUE
                          /\ UNCHANGED retErr
                     ELSE /\ pc' = [pc EXCEPT ![Main] = "returned"]
                          /\ retErr' = ErrDescramble
                          /\ UNCHANGED playerCached
    /\ hres' = [hres EXCEPT ![Main] = NoResult]
    /\ UNCHANGED << resVars, DefaultClient, client, consentID, visitorId,
                    MaxRoutines,
                    ChunkSize, kind, sentConsents, genCount, logVars, contentLength,
                    chunks, started, retLen, chanVars, workVars, seqVars,
                    cancelled, parentCancelled, opc, received >>

\* GetStreamContext lines 378-388: downloadOnce is entered, or downloadChunked
\* (lines 440-487) starts its workers and its sequencer and the call returns
Dispatch ==
    /\ pc[Main] = "NewRequest"
    /\ IF contentLength = 0
       THEN /\ kind' = [kind EXCEPT ![Main] = "once"]
            /\ pc' = [pc EXCEPT ![Main] = "httpDo"]
            /\ UNCHANGED << chunks, started, retLen, retErr, chanVars, spc >>
       ELSE LET cs == getChunks(contentLength, getChunkSize(ChunkSize))
                maxRoutines == getMaxRoutines(MaxRoutines, Len(cs))
            IN  /\ chunks' = cs
                /\ started' = maxRoutines
                /\ chanData' = [i \in 0..(Len(cs) - 1) |-> <<>>]
                /\ chanClosed' = [i \in 0..(Len(cs) - 1) |-> FALSE]
                /\ pc' = [t \in Threads |->
                            IF t = Main THEN "returned"
                            ELSE IF t <= maxRoutines THEN "claim" ELSE pc[t]]
                /\ spc' = "select"
                /\ retLen' = contentLength
                /\ retErr' = Nil
                /\ UNCHANGED kind
    /\ UNCHANGED << resVars, clientVars, hres, body, sentConsents, genCount,
                    logVars, contentLength,
                    workVars, seqI, seqData, cancelled, parentCancelled, opc,
                    received >>


(* ---------------------------- downloadOnce ---------------------------- *)
\* downloadOnce lines 392-416, after httpDo returned
DownloadOnceRet ==
    /\ pc[Main] = "httpDo_ret" /\ kind[Main] = "once"
    /\ IF hres[Main].err # Nil
       THEN /\ retLen' = 0
            /\ UNCHANGED opc
       ELSE /\ opc' = "readAll"
            /\ \E hdr \in {0, 1} : retLen' = hdr
    /\ retErr' = Nil
    /\ hres' = [hres EXCEPT ![Main] = NoResult]
    /\ pc' = [pc EXCEPT ![Main] = "returned"]
    /\ UNCHANGED << resVars, clientVars, kind, body, sentConsents, genCount,
                    logVars,
                    contentLength, chunks, started, chanVars, workVars, seqVars,
                    cancelled, parentCancelled, received >>

\* downloadOnce lines 399-404: io.ReadAll in the goroutine
OnceReadAll ==
    /\ opc = "readAll"
    /\ \E ok \in BOOLEAN :
       IF ok THEN /\ opc' = "send"
                  /\ UNCHANGED body
             ELSE /\ opc' = "done"
                  /\ body' = [body EXCEPT ![Main] = FALSE]
    /\ UNCHANGED << resVars, clientVars, pc, kind, hres, sentConsents, genCount,
                    logVars,
                    callVars, chanVars, workVars, seqVars, cancelled,
                    parentCancelled, received >>

\* downloadOnce lines 405-409: the unit built from the n bytes read
OnceUnitBare(n) == [chunkNum |-> 0, totalChunks |-> 0, n |-> n]
OnceUnit(n) == [chunkNum |-> 1, totalChunks |-> 1, n |-> n]

\* downloadOnce lines 405-409: the send on senderChan, taken by the consumer
OnceSend ==
    /\ opc = "send"
    /\ received' = Append(received, OnceUnit(1))
    /\ body' = [body EXCEPT ![Main] = FALSE]
    /\ opc' = "done"
    /\ UNCHANGED << resVars, clientVars, pc, kind, hres, sentConsents, genCount,
                    logVars,
                    callVars, chanVars, workVars, seqVars, cancelled,
                    parentCancelled >>

(* --------------------------- chunk workers ---------------------------- *)
\* atomic.Uint32.Add
AtomicAddLost(v, d) == IF v = 1 THEN v ELSE v + d
AtomicAdd(v, d) == v + d

\* downloadChunked lines 455-462 and httpDo line 536: claim the next chunk
\* index, then enter downloadChunk and httpDo up to the test of c.consentID
Claim(w) ==
    /\ pc[w] = "claim"
    /\ currentChunk' = AtomicAdd(currentChunk, 1)
    /\ LET chunkIndex == currentChunk' - 1
       IN  IF chunkIndex >= Len(chunks)
           THEN /\ pc' = [pc EXCEPT ![w] = "done"]
                /\ cur' = [cur EXCEPT ![w] = 0]
                /\ UNCHANGED << claims, late, kind >>
           ELSE /\ cur' = [cur EXCEPT ![w] = chunkIndex]
                /\ claims' = [claims EXCEPT ![chunkIndex] = @ + 1]
                /\ late' = [late EXCEPT ![w] = cancelled \/ parentCancelled]
                /\ kind' = [kind EXCEPT ![w] = "chunk"]
                /\ pc' = [pc EXCEPT ![w] =
                            IF consentID = 0 THEN "httpDo_gen" ELSE "httpDo_do"]
    /\ UNCHANGED << resVars, clientVars, hres, body, sentConsents, genCount,
                    logVars, callVars,
                    chanVars, werr, fetchFailed, outOfOrder, seqVars, cancelled,
                    parentCancelled, opc, received >>

\* downloadChunk line 721: the byte count is compared with the range size
SizeOk(n, expected) == n = expected

\* downloadChunk lines 703-731, after httpDo returned: the error is returned, or
\* the body is read, its size checked, the unit delivered and the body closed
DownloadChunkRet(w) ==
    /\ pc[w] = "httpDo_ret" /\ kind[w] = "chunk"
    /\ LET chunk == chunks[cur[w] + 1]
           expected == (chunk.end - chunk.start) + 1
       IN  IF hres[w].err # Nil
           THEN /\ werr' = [werr EXCEPT ![w] = hres[w].err]
                /\ fetchFailed' = TRUE
                /\ UNCHANGED << chanData, body, outOfOrder >>
           ELSE /\ body' = [body EXCEPT ![w] = FALSE]
                /\ \E n \in {expected - 1, expected}, readErr \in BOOLEAN :
                   IF readErr
                   THEN /\ werr' = [werr EXCEPT ![w] = ErrRead]
                        /\ fetchFailed' = TRUE
                        /\ UNCHANGED << chanData, outOfOrder >>
                   ELSE IF ~SizeOk(n, expected)
                   THEN /\ werr' = [werr EXCEPT ![w] = ErrInvalidSize]
                        /\ fetchFailed' = TRUE
                        /\ UNCHANGED << chanData, outOfOrder >>
                   ELSE /\ Len(chanData[cur[w]]) < ChunkChanCap
                        /\ ~chanClosed[cur[w]]
                        /\ chanData' = [chanData EXCEPT ![cur[w]] =
                               Append(@, [chunkNum |-> chunk.num,
                                          totalChunks |-> Len(chunks), n |-> n])]
                        /\ outOfOrder' = (outOfOrder \/ \E j \in seqI..(cur[w] - 1) :
                                              chanData[j] = <<>> /\ ~chanClosed[j])
                        /\ werr' = [werr EXCEPT ![w] = Nil]
                        /\ UNCHANGED fetchFailed
    /\ hres' = [hres EXCEPT ![w] = NoResult]
    /\ pc' = [pc EXCEPT ![w] = "close"]
    /\ UNCHANGED << resVars, clientVars, kind, sentConsents, genCount, logVars,
                    callVars,
                    chanClosed, currentChunk, cur, claims, late, seqVars,
                    cancelled, parentCancelled, opc, received >>

\* downloadChunked lines 463-468: close(chunk.data), then abort or loop
CloseChunk(w) ==
    /\ pc[w] = "close"
    /\ ~chanClosed[cur[w]]
    /\ chanClosed' = [chanClosed EXCEPT ![cur[w]] = TRUE]
    /\ pc' = [pc EXCEPT ![w] = IF werr[w] # Nil THEN "abort" ELSE "claim"]
    /\ UNCHANGED << resVars, clientVars, kind, hres, body, sentConsents,
                    genCount, logVars,
                    callVars, chanData, workVars, seqVars, cancelled,
                    parentCancelled, opc, received >>

\* downloadChunked lines 445-447 and 466-467: abort(err) is cancel()
Abort(w) ==
    /\ pc[w] = "abort"
    /\ cancelled' = TRUE
    /\ werr' = [werr EXCEPT ![w] = Nil]
    /\ cur' = [cur EXCEPT ![w] = 0]
    /\ late' = [late EXCEPT ![w] = FALSE]
    /\ pc' = [pc EXCEPT ![w] = "done"]
    /\ UNCHANGED << resVars, clientVars, kind, hres, body, sentConsents,
                    genCount, logVars,
                    callVars, chanVars, currentChunk, claims, fetchFailed,
                    outOfOrder, seqVars, parentCancelled, opc, received >>


(* ----------------------------- sequencer ------------------------------ *)
\* downloadChunked line 475: the chunk index the sequencer waits for after i
SeqNextSkip(i) == i + 2
SeqNext(i) == i + 1

\* downloadChunked line 477: case <-cancelCtx.Done() is ready, c being the
\* download's own cancellation and p the cancellation of the caller's context
cancelCtxDoneNever(c, p) == FALSE
cancelCtxDone(c, p) == c \/ p

\* downloadChunked lines 476-480: the select of the sequencer
SeqSelect ==
    /\ spc = "select"
    /\ \/ /\ cancelCtxDone(cancelled, parentCancelled)
          /\ cancelled' = TRUE
          /\ spc' = "done"
          /\ UNCHANGED << seqData, chanData >>
       \/ /\ chanData[seqI] # <<>>
          /\ seqData' = Head(chanData[seqI])
          /\ chanData' = [chanData EXCEPT ![seqI] = Tail(@)]
          /\ spc' = "send"
          /\ UNCHANGED cancelled
       \/ /\ chanData[seqI] = <<>> /\ chanClosed[seqI]
          /\ seqData' = ZeroUnit
          /\ spc' = "send"
          /\ UNCHANGED << cancelled, chanData >>
    /\ UNCHANGED << resVars, clientVars, threadVars, callVars, chanClosed, workVars,
                    seqI, parentCancelled, opc, received >>

\* downloadChunked line 481: senderChan <- data, taken by the consumer
SeqSend ==
    /\ spc = "send"
    /\ received' = Append(received, seqData)
    /\ seqI' = SeqNext(seqI)
    /\ spc' = IF seqI' < Len(chunks) THEN "select" ELSE "done"
    /\ UNCHANGED << resVars, clientVars, threadVars, callVars, chanVars, workVars,
                    seqData, cancelled, parentCancelled, opc >>

\* the caller cancels the context it passed to GetStreamContext
ParentCancel ==
    /\ pc[Main] # "start"
    /\ ~parentCancelled
    /\ parentCancelled' = TRUE
    /\ UNCHANGED << resVars, clientVars, threadVars, callVars, chanVars, workVars,
                    seqVars, cancelled, opc, received >>

(* -------------------------- the download run -------------------------- *)
\* a Client before a GetStreamContext call: as constructed, or after earlier
\* calls fixed its identity and, with the first request, its consent value
InitClient ==
    /\ DefaultClient \in {"IOS", "ANDROID"}
    /\ client \in {"unset", DefaultClient, "WEB_EMBEDDED_PLAYER"}
    /\ consentID \in {0, ConsentBase}
    /\ (client = "unset") => (consentID = 0)
    /\ (client = "WEB_EMBEDDED_PLAYER") => (consentID # 0)
    /\ visitorId = [value |-> "", updated |-> ZeroTime]
    /\ MaxRoutines \in RoutineCaps
    /\ ChunkSize \in ChunkSizes
    /\ playerCached = FALSE

InitThreads ==
    /\ kind = [t \in Threads |-> "none"]
    /\ hres = [t \in Threads |-> NoResult]
    /\ body = [t \in Threads |-> FALSE]
    /\ sentConsents = {}
    /\ genCount = 0
    /\ reqCount = [k \in Counted |-> 0]
    /\ postHeader = ""
    /\ postTokens = {}

InitDownload ==
    /\ contentLength = 0
    /\ chunks = <<>>
    /\ chanData = <<>>
    /\ chanClosed = <<>>
    /\ currentChunk = 0
    /\ cur = [w \in Workers |-> 0]
    /\ werr = [w \in Workers |-> Nil]
    /\ claims = [i \in 0..(MaxLen - 1) |-> 0]
    /\ late = [w \in Workers |-> FALSE]
    /\ fetchFailed = FALSE
    /\ outOfOrder = FALSE
    /\ cancelled = FALSE
    /\ parentCancelled = FALSE
    /\ started = 0
    /\ spc = "idle"
    /\ seqI = 0
    /\ seqData = ZeroUnit
    /\ opc = "idle"
    /\ received = <<>>
    /\ retLen = 0
    /\ retErr = Nil

InitResolve ==
    /\ now = 0
    /\ calls = 0
    /\ attempt = 0
    /\ ferr = Nil
    /\ firstErr = Nil
    /\ errEmbed = Nil
    /\ resErr = Nil
    /\ switches = 0
    /\ firstIdentity = "unset"
    /\ needRefresh = FALSE
    /\ refreshed = FALSE
    /\ lastRefresh = [value |-> "", at |-> ZeroTime]

Init ==
    /\ InitClient
    /\ InitThreads
    /\ InitDownload
    /\ InitResolve
    /\ pc = [t \in Threads |-> IF t = Main THEN "start" ELSE "idle"]

Next ==
    \/ GetStreamContext
    \/ Descramble
    \/ DescrambleRet
    \/ Dispatch
    \/ DownloadOnceRet
    \/ OnceReadAll
    \/ OnceSend
    \/ HttpDoCheck(Main)
    \/ \E t \in Threads : HttpDoGen(t)
    \/ \E t \in Threads : HttpDoDo(t)
    \/ \E w \in Workers : Claim(w)
    \/ \E w \in Workers : DownloadChunkRet(w)
    \/ \E w \in Workers : CloseChunk(w)
    \/ \E w \in Workers : Abort(w)
    \/ SeqSelect
    \/ SeqSend

Spec == Init /\ [][Next]_vars


\* the download run in which the caller may cancel its context
NextLive ==
    \/ Next
    \/ ParentCancel

\* every goroutine that can take a step eventually takes it: the scheduler
\* runs each one, the network calls return and the consumer keeps receiving
Fairness ==
    /\ \A t \in Threads : WF_vars(HttpDoGen(t)) /\ WF_vars(HttpDoDo(t))
    /\ \A w \in Workers :
          /\ WF_vars(Claim(w))
          /\ WF_vars(DownloadChunkRet(w))
          /\ WF_vars(CloseChunk(w))
          /\ WF_vars(Abort(w))
    /\ WF_vars(SeqSelect)
    /\ WF_vars(SeqSend)

\* a zero-value Client with the package defaults, before its first call
InitLive ==
    /\ Init
    /\ DefaultClient = "IOS"
    /\ client = "unset"

SpecLive == InitLive /\ [][NextLive]_vars /\ Fairness

(* ----------------------------- videoFromID ---------------------------- *)
Tokens == {"t1", "t2"}
\* what the landing page may hold: a read error, no marker, a JSON block that
\* does not decode, a token that does not unescape, an empty token, a token
Pages == {"readErr", "noMarker", "badJSON", "badEscape", "empty"} \cup Tokens
\* what parseVideoInfo and parseVideoPage may report
ParseOutcomes == {Nil, ErrNotPlayableInEmbed, ErrLoginRequired, ErrVideoPrivate,
                  ErrPlayabilityStatus, Wrap("parse", ErrLoginRequired),
                  Wrap("parse", ErrVideoPrivate)}

\* videoFromID line 82 and videoDataByInnertube up to httpPost
VideoFromID ==
    /\ pc[Main] = "idle"
    /\ calls < MaxCalls
    /\ calls' = calls + 1
    /\ client' = assureClient(client, DefaultClient)
    /\ firstIdentity' = client'
    /\ attempt' = 1
    /\ ferr' = Nil /\ firstErr' = Nil /\ errEmbed' = Nil /\ resErr' = Nil
    /\ switches' = 0
    /\ reqCount' = [k \in Counted |-> 0]
    /\ pc' = [pc EXCEPT ![Main] = "httpPost"]
    /\ UNCHANGED << DefaultClient, consentID, visitorId, MaxRoutines, ChunkSize,
                    playerCached, kind, hres, body, sentConsents, genCount,
                    postHeader, postTokens, dlVars, now, needRefresh, refreshed,
                    lastRefresh >>

\* getVisitorId line 637: the cached token is absent or stale
NeedsRefreshNoAge(v, t) == v.value = ""
NeedsRefresh(v, t) == v.value = "" \/ t - v.updated > VisitorIdMaxAge

\* httpPost lines 598-618 with getVisitorId lines 635-642
GetVisitorId ==
    /\ pc[Main] = "httpPost"
    /\ needRefresh' = NeedsRefresh(visitorId, now)
    /\ refreshed' = FALSE
    /\ IF needRefresh'
       THEN /\ kind' = [kind EXCEPT ![Main] = "landing"]
            /\ UNCHANGED postHeader
       ELSE /\ kind' = [kind EXCEPT ![Main] = "player"]
            /\ postHeader' = visitorId.value
    /\ pc' = [pc EXCEPT ![Main] = "httpDo"]
    /\ UNCHANGED << clientVars, hres, body, sentConsents, genCount, reqCount,
                    postTokens, dlVars, now, calls, attempt, ferr, firstErr,
                    errEmbed, resErr, switches, firstIdentity, lastRefresh >>

\* refreshVisitorId lines 657-681: the token and the error for a landing page
refreshKeepStamp(v, page, t) ==
    CASE page = "readErr" -> [v |-> v, err |-> ErrRead]
      [] page = "noMarker" -> [v |-> v, err |-> Nil]
      [] page = "badJSON" -> [v |-> v, err |-> ErrJSON]
      [] page = "badEscape" -> [v |-> [v EXCEPT !.value = ""], err |-> ErrEscape]
      [] page = "empty" -> [v |-> [value |-> "", updated |-> v.updated], err |-> Nil]
      [] OTHER -> [v |-> [value |-> page, updated |-> v.updated], err |-> Nil]
refreshVisitorId(v, page, t) ==
    CASE page = "readErr" -> [v |-> v, err |-> ErrRead]
      [] page = "noMarker" -> [v |-> v, err |-> Nil]
      [] page = "badJSON" -> [v |-> v, err |-> ErrJSON]
      [] page = "badEscape" -> [v |-> [v EXCEPT !.value = ""], err |-> ErrEscape]
      [] page = "empty" -> [v |-> [value |-> "", updated |-> t], err |-> Nil]
      [] OTHER -> [v |-> [value |-> page, updated |-> t], err |-> Nil]

\* refreshVisitorId lines 652-682 after httpDo returned, then getVisitorId
\* line 641 and httpPost lines 614-618
RefreshRet ==
    /\ pc[Main] = "httpDo_ret" /\ kind[Main] = "landing"
    /\ IF hres[Main].err # Nil
       THEN /\ ferr' = hres[Main].err
            /\ pc' = [pc EXCEPT ![Main] = "videoFromID_ret"]
            /\ UNCHANGED << visitorId, body, kind, postHeader, refreshed,
                    lastRefresh >>
       ELSE \E page \in Pages :
            LET r == refreshVisitorId(visitorId, page, now)
            IN  /\ body' = [body EXCEPT ![Main] = FALSE]
                /\ visitorId' = r.v
                /\ refreshed' = (page \in Tokens)
                /\ lastRefresh' = IF page \in Tokens
                                  THEN [value |-> page, at |-> now] ELSE lastRefresh
                /\ IF r.err # Nil
                   THEN /\ ferr' = r.err
                        /\ pc' = [pc EXCEPT ![Main] = "videoFromID_ret"]
                        /\ UNCHANGED << kind, postHeader >>
                   ELSE /\ postHeader' = r.v.value
                        /\ kind' = [kind EXCEPT ![Main] = "player"]
                        /\ pc' = [pc EXCEPT ![Main] = "httpDo"]
                        /\ UNCHANGED ferr
    /\ hres' = [hres EXCEPT ![Main] = NoResult]
    /\ UNCHANGED << DefaultClient, client, consentID, MaxRoutines, ChunkSize,
                    playerCached, sentConsents, genCount, reqCount, postTokens,
                    dlVars, now, calls, attempt, firstErr, errEmbed, resErr,
                    switches, firstIdentity, needRefresh >>

\* httpPost lines 620-630 and httpPostBodyBytes lines 685-693
PostRet ==
    /\ pc[Main] = "httpDo_ret" /\ kind[Main] = "player"
    /\ IF hres[Main].err # Nil
       THEN /\ ferr' = hres[Main].err
            /\ UNCHANGED body
       ELSE /\ body' = [body EXCEPT ![Main] = FALSE]
            /\ \E readOk \in BOOLEAN : ferr' = IF readOk THEN Nil ELSE ErrRead
    /\ hres' = [hres EXCEPT ![Main] = NoResult]
    /\ pc' = [pc EXCEPT ![Main] = "videoFromID_ret"]
    /\ UNCHANGED << clientVars, kind, sentConsents, genCount, logVars, dlVars,
                    now, calls, attempt, firstErr, errEmbed, resErr, switches,
                    firstIdentity, needRefresh, refreshed, lastRefresh >>


\* videoFromID line 111: the identity of the retry
RetryIdentityKept(c) == c
RetryIdentity(c) == "WEB_EMBEDDED_PLAYER"

\* videoFromID lines 118-128: what the retry's outcome is returned as
RetryErrorBare(e) == e
RetryError(e) ==
    IF e = Nil THEN Nil
    ELSE IF e = ErrVideoPrivate THEN e
    ELSE Wrap("can't bypass age restriction", e)

\* videoFromID lines 94-132: the branch taken on the first parse
FirstBranchNoWatch(perr) ==
    IF perr = Nil THEN "resolved"
    ELSE IF ErrorsIs(perr, ErrNotPlayableInEmbed) \/ ErrorsIs(perr, ErrLoginRequired)
         THEN "retry"
    ELSE "fail"
FirstBranchEager(perr) ==
    IF ErrorsIs(perr, ErrNotPlayableInEmbed) THEN "watch" ELSE "retry"
FirstBranchRetryAny(perr) ==
    IF perr = Nil THEN "resolved"
    ELSE IF ErrorsIs(perr, ErrNotPlayableInEmbed) THEN "watch"
    ELSE "retry"
FirstBranch(perr) ==
    IF perr = Nil THEN "resolved"
    ELSE IF ErrorsIs(perr, ErrNotPlayableInEmbed) THEN "watch"
    ELSE IF ErrorsIs(perr, ErrLoginRequired) THEN "retry"
    ELSE "fail"

\* videoFromID lines 84-96: the fetch that returned is the call's first one,
\* the only one whose outcome selects a fallback
FirstAttemptAny(a) == TRUE
FirstAttempt(a) == a = 1

\* videoFromID lines 84-133, after videoDataByInnertube returned
VideoFromIDRet ==
    /\ pc[Main] = "videoFromID_ret"
    /\ IF FirstAttempt(attempt)
       THEN IF ferr # Nil
            THEN /\ resErr' = ferr
                 /\ pc' = [pc EXCEPT ![Main] = "idle"]
                 /\ UNCHANGED << client, kind, attempt, firstErr, errEmbed,
                    switches >>
            ELSE \E perr \in ParseOutcomes :
                 /\ firstErr' = perr
                 /\ CASE FirstBranch(perr) = "watch" ->
                           /\ attempt' = 3
                           /\ kind' = [kind EXCEPT ![Main] = "watch"]
                           /\ pc' = [pc EXCEPT ![Main] = "httpDo"]
                           /\ UNCHANGED << client, resErr, switches >>
                      [] FirstBranch(perr) = "retry" ->
                           /\ client' = RetryIdentity(client)
                           /\ switches' = switches + 1
                           /\ attempt' = 2
                           /\ pc' = [pc EXCEPT ![Main] = "httpPost"]
                           /\ UNCHANGED << kind, resErr >>
                      [] OTHER ->
                           /\ resErr' = perr
                           /\ pc' = [pc EXCEPT ![Main] = "idle"]
                           /\ UNCHANGED << client, kind, attempt, switches >>
                 /\ UNCHANGED errEmbed
       ELSE \E perr \in ParseOutcomes :
            /\ errEmbed' = IF ferr # Nil THEN ferr ELSE perr
            /\ resErr' = RetryError(errEmbed')
            /\ pc' = [pc EXCEPT ![Main] = "idle"]
            /\ UNCHANGED << client, kind, attempt, firstErr, switches >>
    /\ ferr' = Nil
    /\ UNCHANGED << DefaultClient, consentID, visitorId, MaxRoutines, ChunkSize,
                    playerCached, hres, body, sentConsents, genCount, logVars,
                    dlVars, now, calls, firstIdentity, needRefresh, refreshed,
                    lastRefresh >>

\* videoFromID lines 101-106 with httpGet and httpGetBodyBytes lines 567-595
WatchRet ==
    /\ pc[Main] = "httpDo_ret" /\ kind[Main] = "watch"
    /\ IF hres[Main].err # Nil
       THEN /\ resErr' = hres[Main].err
            /\ UNCHANGED body
       ELSE /\ body' = [body EXCEPT ![Main] = FALSE]
            /\ \E readOk \in BOOLEAN, perr \in ParseOutcomes :
                  resErr' = IF readOk THEN perr ELSE ErrRead
    /\ hres' = [hres EXCEPT ![Main] = NoResult]
    /\ pc' = [pc EXCEPT ![Main] = "idle"]
    /\ UNCHANGED << clientVars, kind, sentConsents, genCount, logVars, dlVars,
                    now, calls, attempt, ferr, firstErr, errEmbed, switches,
                    firstIdentity, needRefresh, refreshed, lastRefresh >>

\* time passes between two calls
Tick ==
    /\ pc[Main] = "idle"
    /\ \E d \in {1, VisitorIdMaxAge} :
       /\ now + d <= MaxTime
       /\ now' = now + d
    /\ UNCHANGED << clientVars, threadVars, dlVars, calls, attempt, ferr,
                    firstErr, errEmbed, resErr, switches, firstIdentity,
                    needRefresh, refreshed, lastRefresh >>

\* a zero-value Client with the package defaults, before its first call
InitRes ==
    /\ DefaultClient = "IOS"
    /\ client = "unset"
    /\ consentID = 0
    /\ visitorId = [value |-> "", updated |-> ZeroTime]
    /\ MaxRoutines = 0
    /\ ChunkSize = 0
    /\ playerCached = FALSE
    /\ InitThreads
    /\ InitDownload
    /\ InitResolve
    /\ pc = [t \in Threads |-> "idle"]

NextRes ==
    \/ VideoFromID
    \/ GetVisitorId
    \/ HttpDoCheck(Main)
    \/ HttpDoGen(Main)
    \/ HttpDoDo(Main)
    \/ RefreshRet
    \/ PostRet
    \/ VideoFromIDRet
    \/ WatchRet
    \/ Tick

SpecRes == InitRes /\ [][NextRes]_vars


(* ------------------------------ properties ---------------------------- *)
\* every worker downloadChunked started has returned
AllWorkersDone == started > 0 /\ \A w \in 1..started : pc[w] = "done"

\* C1: in a chunked download of N chunks without a failed fetch, the units the
\* consumer has received are numbered 1, 2, ... in that order, each carries
\* totalChunks = N, and when the sequencer has finished there are exactly N of them
C1_OrderedOutput ==
    (chunks # <<>> /\ ~fetchFailed) =>
        /\ Len(received) <= Len(chunks)
        /\ \A k \in 1..Len(received) :
              /\ received[k].chunkNum = k
              /\ received[k].totalChunks = Len(chunks)
        /\ (spc = "done" => Len(received) = Len(chunks))

\* a three-chunk download that completed although a later chunk was delivered
\* before an earlier one
C1_Witness ==
    /\ Len(chunks) = 3 /\ ~fetchFailed /\ outOfOrder
    /\ spc = "done" /\ Len(received) = 3

C2_Inv ==
    /\ \A i \in DOMAIN claims : claims[i] <= 1
    /\ (AllWorkersDone /\ ~fetchFailed) =>
          \A i \in 0..(Len(chunks) - 1) : claims[i] = 1

\* C2: no chunk index is claimed by two workers, without a failed fetch every
\* index 0..N-1 has been claimed once all workers have returned, and the shared
\* counter never decreases
C2_ClaimedExactlyOnce ==
    /\ []C2_Inv
    /\ [][currentChunk' >= currentChunk]_vars

\* two workers shared three chunks and both returned
C2_Witness ==
    /\ AllWorkersDone /\ ~fetchFailed
    /\ started = 2 /\ Len(chunks) = 3
    /\ currentChunk = 5

\* C3: when a chunk fetch failed, the caller of GetStreamContext is returned
\* an error
C3_FailureSurfaced ==
    (pc[Main] = "returned" /\ fetchFailed) => retErr # Nil

\* C4 (as claimed): once the download context is cancelled after a failed
\* fetch, no worker claims a chunk index below N
C4_NoClaimAfterCancel ==
    [][(cancelled /\ fetchFailed) => claims' = claims]_vars

C4_Inv ==
    \A w \in Workers :
        late[w] =>
            /\ pc[w] \in {"httpDo_gen", "httpDo_do", "httpDo_ret", "close", "abort"}
            /\ (pc[w] = "httpDo_ret" => hres[w].err = ErrContextCanceled)
            /\ (pc[w] \in {"close", "abort"} => werr[w] # Nil)

\* C4 (amended): a chunk claimed after the cancellation is never fetched nor
\* delivered, its worker claims nothing after it, and a worker whose fetch
\* failed claims nothing more
C4_LateClaimRefused ==
    /\ []C4_Inv
    /\ [][\A w \in Workers :
            ((late[w] \/ werr[w] # Nil) /\ pc'[w] # pc[w]) => claims' = claims]_vars

\* a worker claimed a chunk after the cancellation and is about to stop
C4_Witness ==
    \E w \in Workers : late[w] /\ pc[w] = "abort" /\ cancelled /\ fetchFailed


\* the caller is inside httpPost, past getVisitorId
InPost == kind[Main] = "player"
             /\ pc[Main] \in {"httpDo", "httpDo_gen", "httpDo_do", "httpDo_ret"}

\* C5: getVisitorId refreshes exactly when the cached value is empty or older
\* than VisitorIdMaxAge, and within VisitorIdMaxAge of a refresh that stored a
\* non-empty token it returns that token without a landing-page request
C5_RefreshIffStale ==
    [][(pc[Main] = "httpPost" /\ pc'[Main] # "httpPost") =>
          /\ (kind'[Main] = "landing") <=>
                (visitorId.value = "" \/ now - visitorId.updated > VisitorIdMaxAge)
          /\ (lastRefresh.value # "" /\ now - lastRefresh.at <= VisitorIdMaxAge) =>
                (kind'[Main] = "player" /\ postHeader' = lastRefresh.value)]_vars

\* a later call, after time has passed, goes on with the cached token
C5_Witness ==
    /\ InPost /\ ~needRefresh
    /\ postHeader \in Tokens /\ postHeader = lastRefresh.value
    /\ now > lastRefresh.at /\ calls = 2 /\ attempt = 1

\* C6: no POST carries an empty visitor token, and when getVisitorId found the
\* token absent or stale the POST goes on only if the refresh stored a token
C6_NoPostWithoutToken ==
    /\ "" \notin postTokens
    /\ (InPost /\ needRefresh) => refreshed

\* C7: a response whose status is not 200 is returned as an error carrying the
\* status, with no response object and its body closed; a body is open only
\* while its goroutine is between httpDo and the read, and none is open when
\* every goroutine has finished
C7_StatusErrorClosesBody ==
    /\ \A t \in Threads :
          (pc[t] = "httpDo_ret" /\ hres[t].status \notin {0, StatusOK}) =>
              /\ hres[t].err = ErrUnexpectedStatusCode(hres[t].status)
              /\ ~hres[t].res
              /\ ~body[t]
    /\ \A w \in Workers : body[w] => pc[w] = "httpDo_ret"
    /\ body[Main] => (pc[Main] = "httpDo_ret" \/ opc \in {"readAll", "send"})
    /\ (pc[Main] = "returned" /\ opc \in {"idle", "done"}
        /\ \A w \in Workers : pc[w] \in {"idle", "done"}) =>
              \A t \in Threads : ~body[t]

\* a chunk request was answered 403 and httpDo has returned
C7_Witness ==
    \E w \in Workers :
        pc[w] = "httpDo_ret" /\ kind[w] = "chunk" /\ hres[w].status = 403

\* C8: the consent value is generated at most once and every request sent
\* carries the same value
C8_OneConsent ==
    /\ genCount <= 1
    /\ Cardinality(sentConsents) <= 1

\* the call has returned to its caller
Returned == pc[Main] = "idle" /\ calls > 0

\* C9: when the first parse reported login required and the retry succeeded,
\* videoFromID returns no error, the identity was switched once and is the
\* embedded one, and two player requests and no other were sent
C9_LoginRetryResolves ==
    (Returned /\ ErrorsIs(firstErr, ErrLoginRequired) /\ attempt = 2
     /\ errEmbed = Nil) =>
        /\ resErr = Nil
        /\ switches = 1
        /\ client = "WEB_EMBEDDED_PLAYER"
        /\ reqCount["player"] = 2
        /\ reqCount["watch"] = 0

\* a call that started with the default identity resolved on the retry
C9_Witness ==
    /\ Returned /\ firstErr = ErrLoginRequired /\ attempt = 2 /\ errEmbed = Nil
    /\ firstIdentity = "IOS" /\ resErr = Nil

\* C10: after a login-required first attempt, a retry failure is returned as it
\* is exactly when it is ErrVideoPrivate; any other is returned wrapped with the
\* bypass context and unwraps to the retry failure
C10_RetryFailure ==
    (Returned /\ attempt = 2 /\ errEmbed # Nil) =>
        /\ (resErr = errEmbed) <=> (errEmbed = ErrVideoPrivate)
        /\ (errEmbed # ErrVideoPrivate) =>
              /\ resErr[1].msg = "can't bypass age restriction"
              /\ Unwrap(resErr) = errEmbed

\* the retry was answered 403 and the failure came back wrapped
C10_Witness ==
    /\ Returned /\ attempt = 2
    /\ errEmbed = ErrUnexpectedStatusCode(403)
    /\ Len(resErr) = 2

\* the retry reported a private video and the failure came back as it is
C10_WitnessPrivate ==
    Returned /\ attempt = 2 /\ errEmbed = ErrVideoPrivate /\ resErr = ErrVideoPrivate

\* C11: a resolution call sends at most two metadata requests, the first player
\* request and at most one of the embedded player request and the watch-page
\* GET, never both and never a third, and switches the identity at most once
C11_AtMostTwoFetches ==
    /\ reqCount["player"] <= 2
    /\ reqCount["watch"] <= 1
    /\ reqCount["player"] + reqCount["watch"] <= 2
    /\ switches <= 1

\* the retry of a login-required video reported not embeddable, and the call
\* returned after its second player request without a watch-page GET
C11_Witness ==
    /\ Returned /\ attempt = 2
    /\ ErrorsIs(firstErr, ErrLoginRequired) /\ errEmbed = ErrNotPlayableInEmbed
    /\ reqCount["player"] = 2 /\ reqCount["watch"] = 0 /\ switches = 1

\* C12: when the first parse reported not embeddable, the call returns after
\* exactly one watch-page GET and no further player request, with the identity
\* it started with; the step that ends the watch-page GET ends the call, with
\* the failure of the GET as the call's error when it failed, whatever the
\* page parse reports
C12_WatchPageTerminal ==
    /\ [](Returned /\ ErrorsIs(firstErr, ErrNotPlayableInEmbed) =>
            /\ attempt = 3
            /\ reqCount["watch"] = 1
            /\ reqCount["player"] = 1
            /\ switches = 0
            /\ client = firstIdentity)
    /\ [][(pc[Main] = "httpDo_ret" /\ kind[Main] = "watch"
           /\ pc'[Main] # pc[Main]) =>
              /\ pc'[Main] = "idle"
              /\ client' = client
              /\ (hres[Main].err # Nil => resErr' = hres[Main].err)]_vars

\* the page parse of the watch page reported login required and the call
\* returned that, without a retry
C12_Witness ==
    /\ Returned /\ firstErr = ErrNotPlayableInEmbed /\ attempt = 3
    /\ resErr = ErrLoginRequired
    /\ reqCount["watch"] = 1 /\ client = "IOS"

\* C13: when the first parse reports success, that step returns the call with no
\* error and the identity unchanged, after exactly one player request and no
\* watch-page GET; a call that returned no error on its first attempt holds
\* the identity its first request was sent with
C13_FirstAttemptResolves ==
    /\ [](Returned /\ attempt = 1 /\ resErr = Nil =>
            /\ reqCount["player"] = 1
            /\ reqCount["watch"] = 0
            /\ switches = 0
            /\ client = firstIdentity)
    /\ [][(pc[Main] = "videoFromID_ret" /\ attempt = 1 /\ ferr = Nil
           /\ pc'[Main] # pc[Main] /\ firstErr' = Nil) =>
              /\ pc'[Main] = "idle"
              /\ resErr' = Nil
              /\ client' = client
              /\ switches' = 0
              /\ reqCount' = reqCount
              /\ reqCount["player"] = 1
              /\ reqCount["watch"] = 0]_vars

\* the second call on a Client resolved at once with the embedded identity the
\* first call had left
C13_Witness ==
    /\ Returned /\ attempt = 1 /\ resErr = Nil /\ calls = 2
    /\ reqCount["player"] = 1
    /\ client = "WEB_EMBEDDED_PLAYER" /\ firstIdentity = client

\* the call took the unknown-length path
OncePath == kind[Main] = "once"

\* C14: for a format with content length zero no chunk worker and no sequencer
\* is started and no ranged request is made; when the call has returned exactly
\* one unranged media GET was sent; the consumer receives nothing but one unit
\* numbered 1 of 1, and receives it when the body was read
C14_UnknownLengthOnce ==
    /\ [](OncePath =>
            /\ contentLength = 0
            /\ started = 0 /\ spc = "idle" /\ chunks = <<>>
            /\ \A w \in Workers : pc[w] = "idle" /\ kind[w] = "none"
            /\ reqCount["once"] <= 1
            /\ (pc[Main] = "returned" => reqCount["once"] = 1)
            /\ Len(received) <= 1
            /\ \A k \in 1..Len(received) :
                  received[k].chunkNum = 1 /\ received[k].totalChunks = 1
            /\ (opc \in {"readAll", "send"} => received = <<>>))
    /\ [](contentLength = 0 => started = 0 /\ spc = "idle")
    /\ [][(opc = "send" /\ opc' # opc) =>
              (opc' = "done" /\ Len(received') = 1)]_vars

\* the single unit of an unknown-length download has reached the consumer
C14_Witness ==
    /\ OncePath /\ pc[Main] = "returned" /\ opc = "done"
    /\ received = << OnceUnit(1) >> /\ reqCount["once"] = 1

\* the configured cap on the workers, 10 when MaxRoutines is not positive
WorkerCap(m) == IF m > 0 THEN m ELSE 10

\* C15: a chunked download of N >= 1 chunks has started exactly min(cap, N)
\* workers, at least one and never more than N; getMaxRoutines gives min(cap, N)
\* for every cap setting and every N >= 1 up to twelve
C15_WorkerCount ==
    /\ (chunks # <<>>) =>
          /\ started = Min(WorkerCap(MaxRoutines), Len(chunks))
          /\ started >= 1
          /\ started <= Len(chunks)
          /\ Cardinality({w \in Workers : pc[w] # "idle"}) = started
    /\ \A m \in (0 - 1)..12, n \in 1..12 :
          /\ getMaxRoutines(m, n) = Min(WorkerCap(m), n)
          /\ getMaxRoutines(m, n) \in 1..n

\* the default cap of 10 was cut to the two chunks of the download
C15_Witness ==
    /\ MaxRoutines = 0 /\ Len(chunks) = 2 /\ started = 2
    /\ \A w \in Workers : pc[w] # "idle"

\* C16: every unit the consumer receives in a chunked download is one a worker
\* delivered: it is numbered within 1..N, says N chunks in total and holds the
\* end-start+1 bytes of its chunk
C16_OnlyDeliveredUnits ==
    chunks # <<>> =>
        \A k \in 1..Len(received) :
            /\ received[k].chunkNum \in 1..Len(chunks)
            /\ received[k].totalChunks = Len(chunks)
            /\ received[k].n =
                  (chunks[received[k].chunkNum].end
                     - chunks[received[k].chunkNum].start) + 1

\* C17: a refresh attempt that returns an error leaves the cached pair as it
\* was, and a refresh attempt that changes the cached value stamps it with the
\* time of the attempt
C17_RefreshAtomic ==
    [][(pc[Main] = "httpDo_ret" /\ kind[Main] = "landing" /\ pc'[Main] # pc[Main]) =>
          /\ (ferr' # Nil => visitorId' = visitorId)
          /\ (visitorId'.value # visitorId.value =>
                 visitorId'.updated = now)]_vars

\* C18: when the GET of an unknown-length download, or the read of its body,
\* has failed, so that no unit will reach the consumer, GetStreamContext has
\* returned an error
C18_OnceFailureSurfaced ==
    (OncePath /\ pc[Main] = "returned" /\ opc \in {"idle", "done"}
     /\ received = <<>>) => retErr # Nil

\* the first parse reported a failure that has neither fallback signature
OtherFailure(e) ==
    e # Nil /\ ~ErrorsIs(e, ErrNotPlayableInEmbed) /\ ~ErrorsIs(e, ErrLoginRequired)

\* C19: a first parse failure that is neither not-embeddable nor login-required
\* is returned as it is, and a failure of the first fetch is returned as it is,
\* in both cases after at most one player request, with no watch-page GET and
\* no identity switch
C19_NoFallbackOnOtherFailure ==
    /\ [](Returned /\ OtherFailure(firstErr) =>
            /\ resErr = firstErr
            /\ attempt = 1
            /\ reqCount["player"] = 1
            /\ reqCount["watch"] = 0
            /\ switches = 0
            /\ client = firstIdentity)
    /\ [][(pc[Main] = "videoFromID_ret" /\ attempt = 1 /\ ferr # Nil
           /\ pc'[Main] # pc[Main]) =>
              /\ pc'[Main] = "idle"
              /\ resErr' = ferr
              /\ client' = client
              /\ switches' = 0
              /\ reqCount' = reqCount
              /\ reqCount["player"] <= 1
              /\ reqCount["watch"] = 0]_vars

\* a first parse that reported a private video ended the call with that error
C19_Witness ==
    /\ Returned /\ attempt = 1
    /\ firstErr = ErrVideoPrivate /\ resErr = ErrVideoPrivate
    /\ reqCount["player"] = 1

\* C20: the identity changes only from unset to the default identity, or to the
\* embedded one in the step where a call's first parse reports login required;
\* an embedded identity stays embedded, and a call made on a Client whose
\* identity is embedded sends its first request with it
C20_IdentityChanges ==
    /\ [][client' # client =>
            \/ client = "unset" /\ client' = DefaultClient
            \/ /\ client' = "WEB_EMBEDDED_PLAYER"
               /\ pc[Main] = "videoFromID_ret" /\ attempt = 1
               /\ ErrorsIs(firstErr', ErrLoginRequired)]_vars
    /\ [][client = "WEB_EMBEDDED_PLAYER" =>
            /\ client' = "WEB_EMBEDDED_PLAYER"
            /\ (calls' # calls => firstIdentity' = "WEB_EMBEDDED_PLAYER")]_vars
    /\ [](InPost => client # "unset")

\* the second call on a Client sends its first player request with the
\* embedded identity that the first call switched to
C20_Witness ==
    /\ calls = 2 /\ attempt = 1 /\ InPost /\ pc[Main] = "httpDo_ret"
    /\ firstIdentity = "WEB_EMBEDDED_PLAYER" /\ client = firstIdentity
    /\ DefaultClient = "IOS"

\* a worker that is fetching a chunk finds the chunk's channel empty and open,
\* so its delivery into the one-slot channel does not wait for the sequencer
C21_Inv ==
    \A w \in Workers :
        (kind[w] = "chunk" /\ pc[w] \in {"httpDo_gen", "httpDo_do", "httpDo_ret"}) =>
            /\ chanData[cur[w]] = <<>>
            /\ ~chanClosed[cur[w]]
            /\ Len(chanData[cur[w]]) < ChunkChanCap

\* C21: once a chunked download has started its workers, every worker and the
\* sequencer eventually return, whether all chunks succeed, a chunk fails or
\* the caller cancels its context, and no worker waits to deliver a unit
C21_Terminates ==
    /\ []C21_Inv
    /\ (started > 0) ~> (AllWorkersDone /\ spc = "done")

\* after the caller cancelled and a fetch was refused, the two workers and the
\* sequencer have returned with a delivered unit left in a chunk's channel
C21_Witness ==
    /\ AllWorkersDone /\ spc = "done" /\ started = 2
    /\ parentCancelled /\ fetchFailed
    /\ \E i \in DOMAIN chanData : chanData[i] # <<>>

====
